---- MODULE Spec2Model ----
(***************************************************************************)
(* Model of the rehabilitation analysis pipeline of rehabit_sys:           *)
(* the sensor_data table written by EnhancedSensorDataHandler and the      *)
(* analyses of EnhancedRehabilitationAnalyzer that read it; the request    *)
(* handlers and background threads of app.py that start and stop the       *)
(* collection of a session; the comparison of a user's sessions and the    *)
(* recommendation generator stop_test calls.                               *)
(*                                                                         *)
(* Numbers: sensor values are integers (Newtons, degrees).  A quotient     *)
(* the code computes in floating point is kept exact as a fraction         *)
(* [num, den]; den = 0 is the non-finite float a division by zero of       *)
(* numpy floats gives (num = 0: nan, num > 0: inf).                        *)
(* A nullable column value is <<>> (SQL NULL) or <<v>>.                    *)
(***************************************************************************)
EXTENDS Integers, Sequences, FiniteSets, TLC

VARIABLES sensor_data, final_data, call, runs, device

\* app.py: the dictionary current_sessions, the training_sessions table, the
\* collect_data_background threads, the stop_test requests being served and
\* the wall clock
VARIABLES current_sessions, training_sessions, collectors, requests, now

\* app.py: the dictionary training_sessions_data and the
\* collect_wifi_sensor_data threads
VARIABLES training_sessions_data, streams

\* EnhancedSensorDataHandler: the flag is_running of the handler and the
\* threads running start_data_collection on it
VARIABLES is_running, activities

testVars == <<current_sessions, training_sessions, collectors, requests, now>>
streamVars == <<training_sessions_data, streams>>
handlerVars == <<is_running, activities>>
appVars == <<testVars, streamVars, handlerVars>>

vars == <<sensor_data, final_data, call, runs, device, appVars>>

-----------------------------------------------------------------------------
(* Bounds of the model *)

\* rows the row-by-row specification adds to the table at most
MaxRows == 2
\* rows the collection runs of the run specification store at most
MaxRun == 20
\* collection runs of the run specification
MaxRuns == 2
\* stop_test requests the test specification serves
MaxRequests == 2
\* start_sensor_stream requests the stream specification serves
MaxStreams == 3
\* data points a stream keeps at most
MaxPoints == 2
\* polls of one start_data_collection activity
MaxPolls == 12
\* rows of every run but the longest one
MaxShort == 2

-----------------------------------------------------------------------------
(* Program constants *)

TrendMinRows == 10
ClusterMinRows == 15
MaxClusterCount == 5
ForceReference == 300
AngleReference == 90
ForceNoiseFloor == 10
MaxErrors == 10

FORCE == "force test"
ANGLE == "angle test"
FORCE_AND_ANGLE == "force and angle test"

\* the test types the sensor_data schema names
TestTypes == {FORCE, ANGLE, FORCE_AND_ANGLE}

\* s0 is an earlier session of the user, s1 the session being collected
Sessions == {"s0", "s1"}
Users == {"u1"}

\* force readings (N) and angle readings (degrees) a poll can deliver
Forces == {5, 60}
Angles == {30, 40}

NULL == <<>>
Some(v) == <<v>>

-----------------------------------------------------------------------------
(* Sequence and arithmetic helpers *)

Range(s) == {s[i] : i \in DOMAIN s}

Filter(s, Keep(_)) == SelectSeq(s, Keep)

Column(rows, c) == [i \in DOMAIN rows |-> rows[i][c]]

RECURSIVE SumSeq(_)
SumSeq(s) == IF s = <<>> THEN 0 ELSE Head(s) + SumSeq(Tail(s))

SetMax(S) == CHOOSE x \in S : \A y \in S : y <= x
SetMin(S) == CHOOSE x \in S : \A y \in S : x <= y
Min2(a, b) == IF a <= b THEN a ELSE b

\* pandas Series.unique(): the distinct values in order of first appearance
RECURSIVE UniqueFrom(_, _)
UniqueFrom(s, seen) ==
    IF s = <<>> THEN <<>>
    ELSE IF Head(s) \in seen THEN UniqueFrom(Tail(s), seen)
    ELSE <<Head(s)>> \o UniqueFrom(Tail(s), seen \cup {Head(s)})
Unique(s) == UniqueFrom(s, {})

\* exact fractions standing for the floats of the code
Rat(n, d) == [num |-> n, den |-> d]
IsFinite(q) == q.den # 0
IsNaN(q) == q.den = 0 /\ q.num = 0
Abs(a) == IF a < 0 THEN -a ELSE a
RECURSIVE Gcd(_, _)
Gcd(a, b) == IF b = 0 THEN a ELSE Gcd(b, a % b)
\* float division a / b of two integers held in numpy floats, in lowest terms
Div(a, b) ==
    IF b = 0 THEN Rat(IF a = 0 THEN 0 ELSE 1, 0)
    ELSE LET g == Gcd(Abs(a), Abs(b))
         IN  IF b < 0 THEN Rat((-a) \div g, (-b) \div g) ELSE Rat(a \div g, b \div g)
RatAdd(p, q) ==
    IF IsNaN(p) \/ IsNaN(q) THEN Rat(0, 0)
    ELSE IF ~IsFinite(p) \/ ~IsFinite(q) THEN Rat(1, 0)
    ELSE Div(p.num * q.den + q.num * p.den, p.den * q.den)
RatSub(p, q) == RatAdd(p, Rat(-q.num, q.den))
\* p * n / d for a positive integer d
RatScale(p, n, d) == IF IsFinite(p) THEN Div(p.num * n, p.den * d) ELSE p
\* p == q, p >= n and p > 0 as the float comparisons (false on nan)
RatEq(p, q) == IsFinite(p) /\ IsFinite(q) /\ p.num * q.den = q.num * p.den
RatGeInt(p, n) == IF IsFinite(p) THEN p.num >= n * p.den ELSE ~IsNaN(p)
RatPos(p) == IF IsFinite(p) THEN p.num > 0 ELSE ~IsNaN(p)
RatLe(p, q) == IsFinite(p) /\ IsFinite(q) /\ p.num * q.den <= q.num * p.den

\* Series.mean() of a non-empty integer column
Mean(s) == Div(SumSeq(s), Len(s))

-----------------------------------------------------------------------------
(* The device and the sensor_data table *)

\* what the device answers to one poll: the JSON fields parse_wifi_data reads
\* (a field the answer lacks is NULL; an answer lacking all of them stands for
\* a device that is not connected or does not answer)
Readings == [force : {NULL} \cup {Some(f) : f \in Forces},
             yaw : {NULL} \cup {Some(a) : a \in Angles},
             angle : {NULL} \cup {Some(a) : a \in Angles}]

\* the values simulate_sensor_data draws
Simulated == [force : Forces, angle : Angles]

\* the signals a device produces over a run of n polls (poll i of n):
\* a linear rise 20 N -> 60 N and 30 -> 70 degrees, a constant signal,
\* a weak pull that never exceeds the noise floor, a limb at rest (0 N, 0
\* degrees) for the first half of the run and held at 60 N, 40 degrees after
Signals == {"ramp", "flat", "weak", "late"}
Ramp(lo, hi, i, n) == IF n = 1 THEN lo ELSE lo + ((hi - lo) * (i - 1)) \div (n - 1)
Signal(sig, i, n) ==
    CASE sig = "ramp" -> [force |-> Some(Ramp(20, 60, i, n)), yaw |-> Some(Ramp(30, 70, i, n)),
                          angle |-> Some(Ramp(30, 70, i, n))]
      [] sig = "flat" -> [force |-> Some(60), yaw |-> Some(40), angle |-> Some(40)]
      [] sig = "weak" -> [force |-> Some(Ramp(2, 10, i, n)), yaw |-> Some(Ramp(30, 70, i, n)),
                          angle |-> Some(Ramp(30, 70, i, n))]
      [] sig = "late" -> IF 2 * i <= n
                         THEN [force |-> Some(0), yaw |-> Some(0), angle |-> Some(0)]
                         ELSE [force |-> Some(60), yaw |-> Some(40), angle |-> Some(40)]

\* parse_wifi_data: a channel is filled only when the test type asks for it
\* and the device delivered the field (yaw first, angle otherwise); data.get()
\* of an unfilled channel is None.  With no channel filled the result is None.
parse_wifi_data(reading, test_type) ==
    LET data ==
          [test_type |-> test_type,
           force_value |-> IF test_type \in {FORCE, FORCE_AND_ANGLE} THEN reading.force ELSE NULL,
           angle_value |-> IF test_type \in {ANGLE, FORCE_AND_ANGLE}
                           THEN (IF reading.yaw # NULL THEN reading.yaw ELSE reading.angle)
                           ELSE NULL]
    IN  IF data.force_value = NULL /\ data.angle_value = NULL THEN NULL ELSE Some(data)

\* simulate_sensor_data: every channel the test type asks for is filled
simulate_sensor_data(test_type, sim) ==
    [test_type |-> test_type,
     force_value |-> IF test_type \in {FORCE, FORCE_AND_ANGLE} THEN Some(sim.force) ELSE NULL,
     angle_value |-> IF test_type \in {ANGLE, FORCE_AND_ANGLE} THEN Some(sim.angle) ELSE NULL]

\* read_sensor_data: the parsed answer of the device, or the simulation when
\* there is none
read_sensor_data(reading, test_type, sim) ==
    LET data == parse_wifi_data(reading, test_type)
    IN  IF data # NULL THEN data[1] ELSE simulate_sensor_data(test_type, sim)

\* the row save_to_database inserts; timestamp is the table's DEFAULT
\* CURRENT_TIMESTAMP, taken here as one tick per insert
NextTimestamp(table) == Len(table) + 1
InsertRow(table, data, session_id, user_id) ==
    Append(table, [timestamp |-> NextTimestamp(table),
                   test_type |-> data.test_type,
                   force_value |-> data.force_value,
                   angle_value |-> data.angle_value,
                   session_id |-> session_id,
                   user_id |-> user_id])

\* the user a session belongs to (training_sessions.user_id)
SessionUser(session_id) == "u1"

-----------------------------------------------------------------------------
(* Data frames: columns and rows; loading *)

\* ORDER BY timestamp: stable insertion into timestamp order
RECURSIVE InsertByTimestamp(_, _)
InsertByTimestamp(sorted, r) ==
    IF sorted = <<>> THEN <<r>>
    ELSE IF sorted[Len(sorted)].timestamp <= r.timestamp THEN Append(sorted, r)
    ELSE Append(InsertByTimestamp(SubSeq(sorted, 1, Len(sorted) - 1), r), sorted[Len(sorted)])
RECURSIVE SortFrom(_, _)
SortFrom(rows, sorted) ==
    IF rows = <<>> THEN sorted ELSE SortFrom(Tail(rows), InsertByTimestamp(sorted, Head(rows)))
sort_values_timestamp(rows) == SortFrom(rows, <<>>)

\* DataFrame.fillna(0) on one value: a frame keeps nullable values, and after
\* fillna(0) none of them is null
fillna0(v) == IF v = NULL THEN Some(0) ELSE v

Empty(df) == df.rows = <<>>

\* load_session_data with the WHERE session_id = ? clause lost
load_session_data_unfiltered(session_id) ==
    LET ordered == sort_values_timestamp(sensor_data)
    IN  [columns |-> {"timestamp", "test_type", "force_value", "angle_value"},
         rows |-> [i \in DOMAIN ordered |->
                     [timestamp |-> ordered[i].timestamp,
                      test_type |-> ordered[i].test_type,
                      force_value |-> fillna0(ordered[i].force_value),
                      angle_value |-> fillna0(ordered[i].angle_value)]]]

load_session_data(session_id) ==
    LET selected == Filter(sensor_data, LAMBDA r : r.session_id = session_id)
        ordered == sort_values_timestamp(selected)
    IN  [columns |-> {"timestamp", "test_type", "force_value", "angle_value"},
         rows |-> [i \in DOMAIN ordered |->
                     [timestamp |-> ordered[i].timestamp,
                      test_type |-> ordered[i].test_type,
                      force_value |-> fillna0(ordered[i].force_value),
                      angle_value |-> fillna0(ordered[i].angle_value)]]]

\* the lookback window is taken to hold every stored row
load_user_historical_data(user_id) ==
    LET selected == Filter(sensor_data, LAMBDA r : SessionUser(r.session_id) = user_id)
        ordered == sort_values_timestamp(selected)
    IN  [columns |-> {"timestamp", "test_type", "force_value", "angle_value", "session_id"},
         rows |-> [i \in DOMAIN ordered |->
                     [timestamp |-> ordered[i].timestamp,
                      test_type |-> ordered[i].test_type,
                      force_value |-> fillna0(ordered[i].force_value),
                      angle_value |-> fillna0(ordered[i].angle_value),
                      session_id |-> ordered[i].session_id]]]

\* the values of a column with the nulls dropped (Series.dropna(); max, min
\* and mean skip nulls in the same way)
RECURSIVE DropNa(_)
DropNa(col) ==
    IF col = <<>> THEN <<>>
    ELSE IF Head(col) = NULL THEN DropNa(Tail(col))
    ELSE <<Head(col)[1]>> \o DropNa(Tail(col))
Values(rows, c) == DropNa(Column(rows, c))
NotNaAny(rows, c) == \E i \in DOMAIN rows : rows[i][c] # NULL
ColMax(rows, c) == SetMax(Range(Values(rows, c)))
ColMin(rows, c) == SetMin(Range(Values(rows, c)))
ColMean(rows, c) == Mean(Values(rows, c))

\* df[df['test_type'] == test_type]
OfType(rows, test_type) == Filter(rows, LAMBDA r : r.test_type = test_type)
TypesOf(df) == Unique(Column(df.rows, "test_type"))

-----------------------------------------------------------------------------
(* basic_statistical_analysis *)

RECURSIVE InsertInt(_, _)
InsertInt(sorted, x) ==
    IF sorted = <<>> THEN <<x>>
    ELSE IF sorted[Len(sorted)] <= x THEN Append(sorted, x)
    ELSE Append(InsertInt(SubSeq(sorted, 1, Len(sorted) - 1), x), sorted[Len(sorted)])
RECURSIVE SortIntsFrom(_, _)
SortIntsFrom(s, sorted) ==
    IF s = <<>> THEN sorted ELSE SortIntsFrom(Tail(s), InsertInt(sorted, Head(s)))
Median(s) ==
    LET o == SortIntsFrom(s, <<>>)
        n == Len(o)
    IN  IF n % 2 = 1 THEN Rat(o[(n + 1) \div 2], 1)
        ELSE Rat(o[n \div 2] + o[n \div 2 + 1], 2)
\* the square of Series.std() (sample variance, ddof = 1; nan for one value)
Variance(s) ==
    LET n == Len(s)
        sq == SumSeq([i \in DOMAIN s |-> s[i] * s[i]])
    IN  Div(n * sq - SumSeq(s) * SumSeq(s), n * (n - 1))

\* the block of one channel: values is the channel with the nulls dropped
ChannelBlock(values) ==
    [mean |-> Mean(values),
     std_squared |-> Variance(values),
     min |-> SetMin(Range(values)),
     max |-> SetMax(Range(values)),
     median |-> Median(values),
     count |-> Len(values)]

TypeStatistics(df, test_type) ==
    LET test_data == OfType(df.rows, test_type)
        hasForce == "force_value" \in df.columns /\ NotNaAny(test_data, "force_value")
        hasAngle == "angle_value" \in df.columns /\ NotNaAny(test_data, "angle_value")
        keys == (IF hasForce THEN {"force"} ELSE {}) \cup (IF hasAngle THEN {"angle"} ELSE {})
    IN  [ch \in keys |->
           IF ch = "force" THEN ChannelBlock(Values(test_data, "force_value"))
           ELSE ChannelBlock(Values(test_data, "angle_value"))]

basic_statistical_analysis(df) ==
    IF Empty(df) THEN [kind |-> "error"]
    ELSE [kind |-> "dict",
          val |-> [t \in Range(TypesOf(df)) |-> TypeStatistics(df, t)]]

-----------------------------------------------------------------------------
(* trend_analysis *)

RatDiv(p, q) == Div(p.num * q.den, p.den * q.num)

\* the channels each branch of trend_analysis reads
TrendChannels(test_type) ==
    CASE test_type = FORCE -> {"force"}
      [] test_type = ANGLE -> {"angle"}
      [] test_type = FORCE_AND_ANGLE -> {"force", "angle"}
ChannelColumn(ch) == IF ch = "force" THEN "force_value" ELSE "angle_value"

\* one entry of session_trends
SessionTrend(ydf, session_id, test_type) ==
    LET session_data == Filter(ydf, LAMBDA r : r.session_id = session_id)
        ts == Range(Column(session_data, "timestamp"))
    IN  [session_id |-> session_id,
         timestamp |-> SetMin(ts),
         duration_minutes |-> Div(SetMax(ts) - SetMin(ts), 60),
         avg |-> [ch \in TrendChannels(test_type) |-> ColMean(session_data, ChannelColumn(ch))],
         max |-> [ch \in TrendChannels(test_type) |-> ColMax(session_data, ChannelColumn(ch))]]

\* <channel>_improvement of the two halves
Improvement(first_half, second_half, c) ==
    LET first_mean == ColMean(first_half, c)
        change == RatSub(ColMean(second_half, c), first_mean)
    IN  [change |-> change,
         percentage |-> IF first_mean.num # 0 THEN RatScale(RatDiv(change, first_mean), 100, 1)
                        ELSE Rat(0, 1)]

\* the two halves split one row later, at ceil(n/2)
OverallTrendsCeil(ydf_sorted, test_type) ==
    LET mid_point == (Len(ydf_sorted) + 1) \div 2
        first_half == SubSeq(ydf_sorted, 1, mid_point)
        second_half == SubSeq(ydf_sorted, mid_point + 1, Len(ydf_sorted))
    IN  [k \in {ch \o "_improvement" : ch \in TrendChannels(test_type)} |->
           IF k = "force_improvement" THEN Improvement(first_half, second_half, "force_value")
           ELSE Improvement(first_half, second_half, "angle_value")]

OverallTrends(ydf_sorted, test_type) ==
    LET mid_point == Len(ydf_sorted) \div 2
        first_half == SubSeq(ydf_sorted, 1, mid_point)
        second_half == SubSeq(ydf_sorted, mid_point + 1, Len(ydf_sorted))
    IN  [k \in {ch \o "_improvement" : ch \in TrendChannels(test_type)} |->
           IF k = "force_improvement" THEN Improvement(first_half, second_half, "force_value")
           ELSE Improvement(first_half, second_half, "angle_value")]

TypeTrend(df, test_type) ==
    LET ydf == OfType(df.rows, test_type)
        ids == Unique(Column(ydf, "session_id"))
        session_trends == [i \in DOMAIN ids |-> SessionTrend(ydf, ids[i], test_type)]
        ydf_sorted == sort_values_timestamp(ydf)
    IN  IF Len(ydf_sorted) > TrendMinRows
        THEN [k \in {"session_trends", "overall_trends"} |->
                IF k = "session_trends" THEN session_trends
                ELSE OverallTrends(ydf_sorted, test_type)]
        ELSE [k \in {"session_trends"} |-> session_trends]

\* a frame without a session_id column falls off the end of the function:
\* the result is None
trend_analysis(df) ==
    IF Empty(df) THEN [kind |-> "error"]
    ELSE IF "session_id" \in df.columns
    THEN [kind |-> "dict", val |-> [t \in Range(TypesOf(df)) |-> TypeTrend(df, t)]]
    ELSE [kind |-> "none"]

-----------------------------------------------------------------------------
(* performance_clustering *)

\* the test_type strings the branches of performance_clustering compare with
CLUSTER_FORCE == "force test"
CLUSTER_ANGLE == "angle_test"
CLUSTER_FORCE_AND_ANGLE == "force and angle_test"

\* KMeans and silhouette_score are library code: what they return for the
\* data of a call is an input of the model.  A profile gives, for k = 2..5 (at
\* index k - 1), the silhouette score in hundredths of the k-means clustering.
SilhouetteProfiles == {<<0, 0, 0, 0>>, <<40, 70, 70, 20>>, <<-10, -5, -10, -5>>, <<60, 30, 20, 10>>}
silhouette_score(sil, k) == sil[k - 1]
\* k-means finds more than one cluster exactly when the points are not all equal
SeveralLabels(numerical_data) == Cardinality(Range(numerical_data)) > 1

\* the loop over k: the state is <<best_k, best_score>>
RECURSIVE SearchK(_, _, _, _, _)
SearchK(numerical_data, sil, k, max_clusters, best) ==
    IF k > max_clusters THEN best
    ELSE IF k <= Len(numerical_data) /\ SeveralLabels(numerical_data)
            /\ silhouette_score(sil, k) > best[2]
         THEN SearchK(numerical_data, sil, k + 1, max_clusters, <<k, silhouette_score(sil, k)>>)
         ELSE SearchK(numerical_data, sil, k + 1, max_clusters, best)

\* lines 213-237 for the ydf and features in scope; KMeans raises when asked
\* for more clusters than there are samples.  clustered stands for the
\* centers and the per-sample labels, which are computed from it.
ClusterOne(ydf, features, sil) ==
    LET numerical_data == [i \in DOMAIN ydf |-> [f \in features |-> fillna0(ydf[i][f])[1]]]
        max_clusters == Min2(MaxClusterCount, Len(numerical_data) - 1)
        best == SearchK(numerical_data, sil, 2, max_clusters, <<2, 0>>)
    IN  IF Len(numerical_data) < best[1] THEN [kind |-> "raise", error |-> "ValueError"]
        ELSE [kind |-> "entry",
              n_clusters |-> best[1],
              silhoutte_score |-> best[2],
              features |-> features,
              clustered |-> numerical_data]

\* the branches at the head of the loop body: scope holds ydf and features,
\* which keep their values from an earlier iteration when no branch is taken
BindBranch(df, test_type, scope) ==
    IF test_type = CLUSTER_FORCE
    THEN [bound |-> TRUE, ydf |-> OfType(df.rows, test_type), features |-> {"force_value"}]
    ELSE IF test_type = CLUSTER_ANGLE
    THEN [bound |-> TRUE, ydf |-> OfType(df.rows, test_type), features |-> {"angle_value"}]
    ELSE IF test_type = CLUSTER_FORCE_AND_ANGLE
    THEN [bound |-> TRUE, ydf |-> OfType(df.rows, test_type),
          features |-> {"force_value", "angle_value"}]
    ELSE scope

InsufficientForClustering(df) == Empty(df) \/ Len(df.rows) <= ClusterMinRows

RECURSIVE ClusterLoop(_, _, _, _, _)
ClusterLoop(df, types, scope, clustering_results_all, sil) ==
    IF types = <<>> THEN [kind |-> "dict", val |-> clustering_results_all]
    ELSE LET test_type == Head(types)
             bound == BindBranch(df, test_type, scope)
         IN  IF InsufficientForClustering(df) THEN [kind |-> "marker"]
             ELSE IF ~bound.bound THEN [kind |-> "raise", error |-> "UnboundLocalError"]
             ELSE LET one == ClusterOne(bound.ydf, bound.features, sil)
                  IN  IF one.kind = "raise" THEN one
                      ELSE ClusterLoop(df, Tail(types), bound,
                                       (test_type :> one) @@ clustering_results_all, sil)

\* a frame without a session_id column falls off the end: the result is None
performance_clustering(df, sil) ==
    IF "session_id" \in df.columns
    THEN ClusterLoop(df, TypesOf(df), [bound |-> FALSE], <<>>, sil)
    ELSE [kind |-> "none"]

-----------------------------------------------------------------------------
(* generate_performance_score and get_performance_grade *)

\* 'angle test': max(df['angle_value'].max() - df['angle_value']) / 90 * 100
AngleScore(df) ==
    RatScale(Div(ColMax(df.rows, "angle_value") - ColMin(df.rows, "angle_value"),
                 AngleReference), 100, 1)

\* the force score taken from the weakest pull instead of the strongest
ForceScoreOfMin(df) == Div(ForceReference - ColMin(df.rows, "force_value"), ForceReference)

\* 'force test': (300 - df['force_value'].max()) / 300
ForceScore(df) == Div(ForceReference - ColMax(df.rows, "force_value"), ForceReference)

\* the reference baseline of the 'force and angle test' branch:
\* ydf = df[df['force_value'] > 10]; ydf_sorted is computed and not used;
\* angle = ydf['angle_value'].iloc[0].  NULL stands for the IndexError of an
\* empty selection.
Baseline(df) ==
    LET ydf == Filter(df.rows, LAMBDA r : r.force_value # NULL /\ r.force_value[1] > ForceNoiseFloor)
    IN  IF ydf = <<>> THEN NULL ELSE ydf[1].angle_value

\* 'force and angle test'; .iloc[0] of an empty selection raises IndexError
CombinedScore(df) ==
    IF Baseline(df) = NULL THEN [kind |-> "raise", error |-> "IndexError"]
    ELSE LET angle == Baseline(df)[1]
             angle_max == ColMax(df.rows, "angle_value")
             angle_min == ColMin(df.rows, "angle_value")
             angle_score == RatScale(Div(angle_max - angle, angle_max - angle_min), 100, 1)
             force_score == ForceScore(df)
         IN  [kind |-> "score", score |-> RatScale(RatAdd(angle_score, force_score), 1, 2)]

TypeScore(df, test_type) ==
    CASE test_type = ANGLE -> [kind |-> "score", score |-> AngleScore(df)]
      [] test_type = FORCE -> [kind |-> "score", score |-> ForceScore(df)]
      [] test_type = FORCE_AND_ANGLE -> CombinedScore(df)

RECURSIVE SumScores(_, _)
SumScores(scores, types) ==
    IF types = <<>> THEN Rat(0, 1)
    ELSE RatAdd(scores[Head(types)], SumScores(scores, Tail(types)))

\* the grade taken from the sum of the scores instead of their mean
get_performance_grade_of_sum(scores, types) ==
    IF types = <<>> THEN [kind |-> "raise", error |-> "ZeroDivisionError"]
    ELSE LET score == SumScores(scores, types)
         IN  [kind |-> "grade",
              grade |-> IF RatGeInt(score, 90) THEN "A"
                        ELSE IF RatGeInt(score, 80) THEN "B"
                        ELSE IF RatGeInt(score, 70) THEN "C"
                        ELSE "D"]

\* sum / a of zero scores is the division 0 / 0 of Python integers
get_performance_grade(scores, types) ==
    IF types = <<>> THEN [kind |-> "raise", error |-> "ZeroDivisionError"]
    ELSE LET score == RatScale(SumScores(scores, types), 1, Len(types))
         IN  [kind |-> "grade",
              grade |-> IF RatGeInt(score, 90) THEN "A"
                        ELSE IF RatGeInt(score, 80) THEN "B"
                        ELSE IF RatGeInt(score, 70) THEN "C"
                        ELSE "D"]

generate_performance_score(df) ==
    LET types == TypesOf(df)
        each == [t \in Range(types) |-> TypeScore(df, t)]
        raised == {t \in Range(types) : each[t].kind = "raise"}
        scores == [t \in Range(types) |-> each[t].score]
    IN  IF raised # {} THEN each[CHOOSE t \in raised : TRUE]
        ELSE LET grade == get_performance_grade(scores, types)
             IN  IF grade.kind = "raise" THEN grade
                 ELSE [kind |-> "dict", score |-> scores, grade |-> grade.grade]

-----------------------------------------------------------------------------
(* comprehensive_analysis and save_analysis_results *)

DataSummary(df) ==
    LET ts == Range(Column(df.rows, "timestamp"))
    IN  [total_records |-> Len(df.rows),
         test_types |-> TypesOf(df),
         time_range |-> [start |-> SetMin(ts), end |-> SetMax(ts),
                         duration_minutes |-> Div(SetMax(ts) - SetMin(ts), 60)]]

\* the value comprehensive_analysis returns for the frame it loaded; an
\* exception of one of the analyses leaves the function
ComprehensiveResult(session_id, df, sil) ==
    IF Empty(df) THEN [kind |-> "error"]
    ELSE LET clustering == performance_clustering(df, sil)
             score == generate_performance_score(df)
         IN  IF clustering.kind = "raise" THEN clustering
             ELSE IF score.kind = "raise" THEN score
             ELSE [kind |-> "result",
                   session_id |-> session_id,
                   data_summary |-> DataSummary(df),
                   statistical_analysis |-> basic_statistical_analysis(df),
                   trend_analysis |-> trend_analysis(df),
                   clustering_analysis |-> clustering,
                   performance_score |-> score]

\* save_analysis_results is reached only with a full result.  Its outcomes:
\*   "stored"   the INSERT commits
\*   "failed"   json.dumps or the INSERT raises inside the try block, which
\*              is caught and logged
\*   "raise"    sqlite3.connect raises: it is called outside the try block,
\*              so the exception leaves comprehensive_analysis
SaveOutcomes == {"stored", "failed", "raise"}
SavedAfter(table, session_id, result, saved) ==
    IF result.kind = "result" /\ saved = "stored"
    THEN Append(table, [session_id |-> session_id,
                        analysis_type |-> "comprehensive",
                        results |-> result])
    ELSE table

\* what comprehensive_analysis hands to its caller after the save
ReturnedAfter(result, saved) ==
    IF result.kind = "result" /\ saved = "raise" THEN [kind |-> "raise"] ELSE result

-----------------------------------------------------------------------------
(* State machine *)

NoCall == [op |-> "none"]

\* the table is persistent: it may hold the rows of an earlier session
PriorRows ==
    <<[timestamp |-> 1, test_type |-> FORCE_AND_ANGLE, force_value |-> Some(60),
       angle_value |-> Some(40), session_id |-> "s0", user_id |-> "u1"]>>

\* the application has just started: no test is running
EmptyMap == [k \in {} |-> k]
AppInit ==
    /\ current_sessions = EmptyMap
    /\ training_sessions = EmptyMap
    /\ collectors = EmptyMap
    /\ requests = <<>>
    /\ now = 1
    /\ training_sessions_data = EmptyMap
    /\ streams = <<>>
    /\ is_running = FALSE
    /\ activities = EmptyMap

Init ==
    /\ sensor_data \in {<<>>, PriorRows}
    /\ final_data = <<>>
    /\ call = NoCall
    /\ runs = 0
    /\ device = "ramp"
    /\ AppInit

\* the frames the analyses are given: a session's rows, a user's history
Frames == {load_session_data(s) : s \in Sessions} \cup {load_user_historical_data(u) : u \in Users}

\* the profiles to choose from: KMeans is consulted only by a call that gets
\* past the column test and the row-count test of performance_clustering
Oracles(df) ==
    IF "session_id" \in df.columns /\ ~InsufficientForClustering(df)
    THEN SilhouetteProfiles ELSE {<<0, 0, 0, 0>>}

\* one successful poll of a collection activity: read_sensor_data followed by
\* save_to_database.  Collection has stopped when analysis is requested.
SaveToDatabase(session_id, test_type, reading, sim) ==
    /\ call = NoCall
    /\ Len(Filter(sensor_data, LAMBDA r : r.session_id = session_id)) < MaxRows
    /\ sensor_data' = InsertRow(sensor_data, read_sensor_data(reading, test_type, sim),
                                session_id, SessionUser(session_id))
    /\ UNCHANGED <<final_data, call, runs, device, appVars>>

\* a whole run of start_data_collection: n polls of the device, each saved.
\* A session runs a test type once, and at most one of its runs is long.
StartDataCollection(session_id, test_type, n) ==
    LET polled(i) == parse_wifi_data(Signal(device, i, n), test_type)[1]
        base == Len(sensor_data)
        earlier == Filter(sensor_data, LAMBDA r : r.session_id = session_id)
    IN  /\ call = NoCall
        /\ runs < MaxRuns
        /\ base + n <= MaxRun
        /\ OfType(earlier, test_type) = <<>>
        /\ n <= MaxShort \/ Len(earlier) <= MaxShort * runs
        /\ sensor_data' = sensor_data \o
               [i \in 1..n |-> [timestamp |-> base + i,
                                test_type |-> polled(i).test_type,
                                force_value |-> polled(i).force_value,
                                angle_value |-> polled(i).angle_value,
                                session_id |-> session_id,
                                user_id |-> SessionUser(session_id)]]
        /\ runs' = runs + 1
        /\ UNCHANGED <<final_data, call, device, appVars>>

\* a behaviour ends with one analysis request: the analyses are functions of
\* the table, which they leave as it is
ComprehensiveAnalysis(session_id, sil, saved) ==
    LET df == load_session_data(session_id)
        result == ComprehensiveResult(session_id, df, sil)
    IN  /\ call = NoCall
        /\ call' = [op |-> "comprehensive_analysis", session_id |-> session_id,
                    df |-> df, sil |-> sil,
                    saved |-> IF result.kind = "result" THEN saved ELSE "skipped",
                    out |-> ReturnedAfter(result, saved)]
        /\ final_data' = SavedAfter(final_data, session_id, result, saved)
        /\ UNCHANGED <<sensor_data, runs, device, appVars>>

TrendAnalysis(df) ==
    /\ call = NoCall
    /\ call' = [op |-> "trend_analysis", df |-> df, out |-> trend_analysis(df)]
    /\ UNCHANGED <<sensor_data, final_data, runs, device, appVars>>

PerformanceClustering(df, sil) ==
    /\ call = NoCall
    /\ call' = [op |-> "performance_clustering", df |-> df, sil |-> sil,
                out |-> performance_clustering(df, sil)]
    /\ UNCHANGED <<sensor_data, final_data, runs, device, appVars>>

Analyses ==
    \/ \E s \in Sessions, saved \in SaveOutcomes :
          \E sil \in Oracles(load_session_data(s)) : ComprehensiveAnalysis(s, sil, saved)
    \/ \E df \in Frames : TrendAnalysis(df)
    \/ \E df \in Frames : \E sil \in Oracles(df) : PerformanceClustering(df, sil)

Next ==
    \/ \E t \in TestTypes, reading \in Readings, sim \in Simulated :
          SaveToDatabase("s1", t, reading, sim)
    \/ Analyses

Spec == Init /\ [][Next]_vars

\* the run specification: the device produces one of the signals, and the
\* rows of a session come from whole collection runs
InitRun ==
    /\ sensor_data = <<>>
    /\ final_data = <<>>
    /\ call = NoCall
    /\ runs = 0
    /\ device \in Signals
    /\ AppInit

NextRun ==
    \/ \E t \in TestTypes, n \in 1..MaxRun : StartDataCollection("s1", t, n)
    \/ Analyses

SpecRun == InitRun /\ [][NextRun]_vars

\* the score specification: get_performance_grade applied to the score
\* dictionaries generate_performance_score can hand it.  A force score is at
\* most 1, an angle score is a percentage of 90 degrees, a combined score may
\* be nan or infinite.
ScoreValues(t) ==
    CASE t = FORCE -> {Rat(4, 5), Rat(1, 1)}
      [] t = ANGLE -> {Rat(0, 1), Rat(69, 1), Rat(70, 1), Rat(80, 1), Rat(89, 1),
                       Rat(90, 1), Rat(100, 1)}
      [] t = FORCE_AND_ANGLE -> {Rat(0, 0), Rat(1, 0), Rat(252, 5), Rat(100, 1)}
ScoredTypes == {<<FORCE>>, <<ANGLE>>, <<FORCE_AND_ANGLE>>, <<FORCE, ANGLE>>,
                <<FORCE, FORCE_AND_ANGLE>>, <<ANGLE, FORCE_AND_ANGLE>>,
                <<FORCE, ANGLE, FORCE_AND_ANGLE>>}

\* the dictionaries: one score per type of ScoredTypes
ScoreDicts ==
    UNION {{[types |-> types, scores |-> scores] :
               scores \in {f \in [Range(types) -> UNION {ScoreValues(t) : t \in Range(types)}] :
                              \A t \in Range(types) : f[t] \in ScoreValues(t)}} :
           types \in ScoredTypes}

\* the function reads nothing but its argument: it is applied to each
\* dictionary once, while the session to be collected is still without rows
GetPerformanceGrade(types, scores) ==
    /\ call = NoCall
    /\ \A i \in DOMAIN sensor_data : sensor_data[i].session_id # "s1"
    /\ call' = [op |-> "get_performance_grade", types |-> types, scores |-> scores,
                out |-> get_performance_grade(scores, types)]
    /\ UNCHANGED <<sensor_data, final_data, runs, device, appVars>>

NextScore ==
    \/ Next
    \/ \E d \in ScoreDicts : GetPerformanceGrade(d.types, d.scores)

SpecScore == Init /\ [][NextScore]_vars

-----------------------------------------------------------------------------
(* app.py: start_test, collect_data_background, stop_test *)

\* the session ids create_training_session hands out (timestamp and uuid:
\* never the same id twice)
AppSessions == {"s1", "s2"}

SessionRows(session_id) == Filter(sensor_data, LAMBDA r : r.session_id = session_id)
Put(map, key, value) == [k \in DOMAIN map \cup {key} |-> IF k = key THEN value ELSE map[k]]
Pop(map, key) == [k \in DOMAIN map \ {key} |-> map[k]]

\* create_training_session: INSERT INTO training_sessions ... status 'active'
create_training_session(table, session_id, user_id, test_type, t) ==
    Put(table, session_id,
        [user_id |-> user_id, start_time |-> t, end_time |-> NULL, duration |-> NULL,
         test_types |-> <<test_type>>, status |-> "active"])

\* end_training_session: UPDATE ... SET end_time, duration, status of the
\* row of the session, whatever its status is; nothing when there is no row
end_training_session(table, session_id, t) ==
    IF session_id \in DOMAIN table
    THEN [table EXCEPT ![session_id] =
            [user_id |-> @.user_id, start_time |-> @.start_time, end_time |-> Some(t),
             duration |-> Some(t - @.start_time), test_types |-> @.test_types,
             status |-> "completed"]]
    ELSE table

\* start_test: a session row, an entry of current_sessions and a daemon
\* thread running collect_data_background
StartTest(session_id, test_type) ==
    /\ session_id \notin DOMAIN training_sessions
    /\ training_sessions' = create_training_session(training_sessions, session_id,
                                                    SessionUser(session_id), test_type, now)
    /\ current_sessions' = Put(current_sessions, session_id,
                               [test_type |-> test_type, data_count |-> 0, is_collecting |-> TRUE])
    /\ collectors' = Put(collectors, session_id,
                         [pc |-> "check", test_type |-> test_type, data_count |-> 0])
    /\ now' = now + 1
    /\ UNCHANGED <<sensor_data, final_data, call, runs, device, requests, streamVars, handlerVars>>

\* collect_data_background, the loop condition, first operand: session_id in
\* current_sessions.  The operands are evaluated one after the other, and
\* another thread may run between them.
CollectCheck(session_id) ==
    /\ session_id \in DOMAIN collectors
    /\ collectors[session_id].pc = "check"
    /\ collectors' = [collectors EXCEPT ![session_id].pc =
                         IF session_id \in DOMAIN current_sessions THEN "read" ELSE "exit"]
    /\ UNCHANGED <<sensor_data, final_data, call, runs, device,
                   current_sessions, training_sessions, requests, now, streamVars, handlerVars>>

\* the loop condition, second and third operand:
\* current_sessions[session_id]['is_collecting'] and the duration (it has
\* elapsed once MaxRows rows are stored).  The subscript raises KeyError when
\* the entry is gone; the condition is outside the try block, so the
\* exception ends the thread.
CollectRead(session_id, elapsed) ==
    /\ session_id \in DOMAIN collectors
    /\ collectors[session_id].pc = "read"
    /\ Len(SessionRows(session_id)) >= MaxRows => elapsed
    /\ collectors' = [collectors EXCEPT ![session_id].pc =
                         IF session_id \notin DOMAIN current_sessions THEN "failed"
                         ELSE IF current_sessions[session_id].is_collecting /\ ~elapsed
                         THEN "poll" ELSE "exit"]
    /\ UNCHANGED <<sensor_data, final_data, call, runs, device,
                   current_sessions, training_sessions, requests, now, streamVars, handlerVars>>

\* the loop body: read_sensor_data, save_to_database, data_count += 1 and the
\* test session_id in current_sessions
CollectPoll(session_id) ==
    /\ session_id \in DOMAIN collectors
    /\ collectors[session_id].pc = "poll"
    /\ LET data == parse_wifi_data(Signal(device, 1, 1), collectors[session_id].test_type)[1]
           data_count == collectors[session_id].data_count + 1
       IN  /\ sensor_data' = InsertRow(sensor_data, data, session_id, SessionUser(session_id))
           /\ collectors' = [collectors EXCEPT
                                ![session_id].pc = IF session_id \in DOMAIN current_sessions
                                                   THEN "count" ELSE "check",
                                ![session_id].data_count = data_count]
    /\ UNCHANGED <<final_data, call, runs, device, current_sessions, training_sessions,
                   requests, now, streamVars, handlerVars>>

\* the loop body: current_sessions[session_id]['data_count'] = data_count;
\* KeyError when the entry is gone, caught by the handler of the loop body,
\* which leaves the loop
CollectCount(session_id) ==
    /\ session_id \in DOMAIN collectors
    /\ collectors[session_id].pc = "count"
    /\ IF session_id \in DOMAIN current_sessions
       THEN /\ current_sessions' = [current_sessions EXCEPT
                                       ![session_id].data_count = collectors[session_id].data_count]
            /\ collectors' = [collectors EXCEPT ![session_id].pc = "check"]
       ELSE /\ collectors' = [collectors EXCEPT ![session_id].pc = "exit"]
            /\ UNCHANGED current_sessions
    /\ UNCHANGED <<sensor_data, final_data, call, runs, device, training_sessions, requests, now, streamVars, handlerVars>>

\* collect_data_background after its loop: the test session_id in
\* current_sessions; without the entry the thread completes
CollectExit(session_id) ==
    /\ session_id \in DOMAIN collectors
    /\ collectors[session_id].pc = "exit"
    /\ collectors' = [collectors EXCEPT ![session_id].pc =
                         IF session_id \in DOMAIN current_sessions THEN "clear" ELSE "done"]
    /\ UNCHANGED <<sensor_data, final_data, call, runs, device,
                   current_sessions, training_sessions, requests, now, streamVars, handlerVars>>

\* after the loop: current_sessions[session_id]['is_collecting'] = False, and
\* the thread completes; KeyError when the entry is gone ends the thread
\* before its completion step
CollectClear(session_id) ==
    /\ session_id \in DOMAIN collectors
    /\ collectors[session_id].pc = "clear"
    /\ IF session_id \in DOMAIN current_sessions
       THEN /\ current_sessions' = [current_sessions EXCEPT ![session_id].is_collecting = FALSE]
            /\ collectors' = [collectors EXCEPT ![session_id].pc = "done"]
       ELSE /\ collectors' = [collectors EXCEPT ![session_id].pc = "failed"]
            /\ UNCHANGED current_sessions
    /\ UNCHANGED <<sensor_data, final_data, call, runs, device, training_sessions, requests, now, streamVars, handlerVars>>

\* stop_test, up to the flag: 400 for a session that has no entry
StopTestBegin(session_id) ==
    /\ Len(requests) < MaxRequests
    /\ IF session_id \in DOMAIN current_sessions
       THEN /\ current_sessions' = [current_sessions EXCEPT ![session_id].is_collecting = FALSE]
            /\ requests' = Append(requests, [session_id |-> session_id, pc |-> "end", status |-> 0,
                                            advice |-> "none"])
       ELSE /\ requests' = Append(requests, [session_id |-> session_id, pc |-> "done", status |-> 400,
                                            advice |-> "none"])
            /\ UNCHANGED current_sessions
    /\ UNCHANGED <<sensor_data, final_data, call, runs, device, training_sessions, collectors, now, streamVars, handlerVars>>

\* stop_test: data_handler.end_training_session(session_id)
StopTestEnd(i) ==
    /\ i \in DOMAIN requests
    /\ requests[i].pc = "end"
    /\ training_sessions' = end_training_session(training_sessions, requests[i].session_id, now)
    /\ now' = now + 1
    /\ requests' = [requests EXCEPT ![i].pc = "analyse"]
    /\ UNCHANGED <<sensor_data, final_data, call, runs, device, current_sessions, collectors, streamVars, handlerVars>>

\* what the remote text generation does when generate_recommendations calls
\* it: it answers with a text, or the call raises (service unreachable)
AdvisorOutcomes == {"text", "api_error"}

\* generate_recommendations: an exception of call_openai_api is caught, but
\* the fallback that would bind response is commented out, so the use of
\* response that follows raises UnboundLocalError
generate_recommendations(analysis_data, advice) ==
    IF advice = "text"
    THEN [kind |-> "dict", type |-> "analysis_based_recommendations", recommendations |-> advice]
    ELSE [kind |-> "raise"]

\* stop_test: analyzer.comprehensive_analysis(session_id), then
\* advisor.generate_recommendations(analysis_results, user_profile); an
\* exception of either is answered with 500 and the entry is not removed
StopTestAnalyse(i, saved, advice) ==
    /\ i \in DOMAIN requests
    /\ requests[i].pc = "analyse"
    /\ LET session_id == requests[i].session_id
           df == load_session_data(session_id)
           result == ComprehensiveResult(session_id, df, <<0, 0, 0, 0>>)
           out == ReturnedAfter(result, saved)
       IN  /\ call' = [op |-> "comprehensive_analysis", session_id |-> session_id,
                       df |-> df, sil |-> <<0, 0, 0, 0>>,
                       saved |-> IF result.kind = "result" THEN saved ELSE "skipped",
                       out |-> out]
           /\ final_data' = SavedAfter(final_data, session_id, result, saved)
           /\ requests' =
                 IF out.kind = "raise"
                 THEN [requests EXCEPT ![i].pc = "done", ![i].status = 500]
                 ELSE IF generate_recommendations(out, advice).kind = "raise"
                 THEN [requests EXCEPT ![i].pc = "done", ![i].status = 500, ![i].advice = advice]
                 ELSE [requests EXCEPT ![i].pc = "pop", ![i].advice = advice]
    /\ UNCHANGED <<sensor_data, runs, device, current_sessions, training_sessions, collectors, now, streamVars, handlerVars>>

\* stop_test: current_sessions.pop(session_id); KeyError (500) when another
\* request removed the entry first
StopTestPop(i) ==
    /\ i \in DOMAIN requests
    /\ requests[i].pc = "pop"
    /\ IF requests[i].session_id \in DOMAIN current_sessions
       THEN /\ current_sessions' = Pop(current_sessions, requests[i].session_id)
            /\ requests' = [requests EXCEPT ![i].pc = "done", ![i].status = 200]
       ELSE /\ requests' = [requests EXCEPT ![i].pc = "done", ![i].status = 500]
            /\ UNCHANGED current_sessions
    /\ UNCHANGED <<sensor_data, final_data, call, runs, device, training_sessions, collectors, now, streamVars, handlerVars>>

\* the test specification: one session is tested, the device gives a steady
\* signal, strong or weak; stop_test may be requested more than once; no
\* final_data table exists in the database the application creates, so the
\* INSERT of the analysis fails
InitTest ==
    /\ sensor_data = <<>>
    /\ final_data = <<>>
    /\ call = NoCall
    /\ runs = 0
    /\ device \in {"flat", "weak"}
    /\ AppInit

NextTest ==
    \/ \E t \in TestTypes : StartTest("s1", t)
    \/ CollectCheck("s1")
    \/ \E elapsed \in BOOLEAN : CollectRead("s1", elapsed)
    \/ CollectPoll("s1")
    \/ CollectCount("s1")
    \/ CollectExit("s1")
    \/ CollectClear("s1")
    \/ StopTestBegin("s1")
    \/ \E i \in 1..MaxRequests : StopTestEnd(i)
    \/ \E i \in 1..MaxRequests, advice \in AdvisorOutcomes : StopTestAnalyse(i, "failed", advice)
    \/ \E i \in 1..MaxRequests : StopTestPop(i)

SpecTest == InitTest /\ [][NextTest]_vars

-----------------------------------------------------------------------------
(* app.py: start_sensor_stream, collect_wifi_sensor_data, stop_sensor_stream *)

\* the session ids a client sends with its stream requests
StreamSessions == {"s1", "s2"}

\* the data point collect_wifi_sensor_data builds from one reading of the
\* 'force and angle test'
DataPoint(data) == [force |-> data.force_value, angle |-> data.angle_value]

\* start_sensor_stream: the entry of the session is (re)initialised and a
\* daemon thread running collect_wifi_sensor_data is started
StartSensorStream(session_id) ==
    /\ Len(streams) < MaxStreams
    /\ training_sessions_data' = Put(training_sessions_data, session_id,
                                     [is_streaming |-> TRUE, data_points |-> <<>>])
    /\ streams' = Append(streams, [session_id |-> session_id, pc |-> "check"])
    /\ UNCHANGED <<sensor_data, final_data, call, runs, device, testVars, handlerVars>>

\* stop_sensor_stream: the flag of the entry is cleared (404 without entry;
\* clearing a cleared flag changes nothing)
StopSensorStream(session_id) ==
    /\ session_id \in DOMAIN training_sessions_data
    /\ training_sessions_data[session_id].is_streaming
    /\ training_sessions_data' =
          [training_sessions_data EXCEPT ![session_id].is_streaming = FALSE]
    /\ UNCHANGED <<sensor_data, final_data, call, runs, device, testVars, handlerVars, streams>>

\* collect_wifi_sensor_data, the loop condition
StreamCheck(i) ==
    /\ i \in DOMAIN streams
    /\ streams[i].pc = "check"
    /\ LET session_id == streams[i].session_id
           continue == /\ session_id \in DOMAIN training_sessions_data
                       /\ training_sessions_data[session_id].is_streaming
       IN  streams' = [streams EXCEPT ![i].pc = IF continue THEN "poll" ELSE "done"]
    /\ UNCHANGED <<sensor_data, final_data, call, runs, device, testVars, handlerVars,
                   training_sessions_data>>

\* collect_wifi_sensor_data, the loop body: one reading appended to the
\* data points of the session
StreamPoll(i) ==
    /\ i \in DOMAIN streams
    /\ streams[i].pc = "poll"
    /\ LET session_id == streams[i].session_id
           data == parse_wifi_data(Signal(device, 1, 1), FORCE_AND_ANGLE)[1]
       IN  /\ Len(training_sessions_data[session_id].data_points) < MaxPoints
           /\ training_sessions_data' =
                 [training_sessions_data EXCEPT
                    ![session_id].data_points = Append(@, DataPoint(data))]
    /\ streams' = [streams EXCEPT ![i].pc = "check"]
    /\ UNCHANGED <<sensor_data, final_data, call, runs, device, testVars, handlerVars>>

InitStream ==
    /\ sensor_data = <<>>
    /\ final_data = <<>>
    /\ call = NoCall
    /\ runs = 0
    /\ device = "flat"
    /\ AppInit

NextStream ==
    \/ \E s \in StreamSessions : StartSensorStream(s)
    \/ \E s \in StreamSessions : StopSensorStream(s)
    \/ \E i \in 1..MaxStreams : StreamCheck(i)
    \/ \E i \in 1..MaxStreams : StreamPoll(i)

SpecStream == InitStream /\ [][NextStream]_vars

-----------------------------------------------------------------------------
(* EnhancedSensorDataHandler: start_data_collection, stop_data_collection *)

\* what one poll of the loop body meets:
\*   "ok"            the device answers and the row is inserted;
\*   "read_failed"   the request to the device fails: read_sensor_data catches
\*                   the exception and returns a simulated reading;
\*   "write_failed"  the INSERT fails: save_to_database catches the exception
\*                   and rolls back;
\*   "raise"         sqlite3.connect fails: it is called outside the try block
\*                   of save_to_database, so the exception reaches the loop
Outcomes == {"ok", "read_failed", "write_failed", "raise"}
FailedPolls == {"read_failed", "write_failed", "raise"}

\* the reading simulate_sensor_data hands back in place of the device's
SteadySimulation == [force |-> 60, angle |-> 40]

\* a thread is started with target start_data_collection for the session
StartCollection(session_id, test_type) ==
    /\ session_id \notin DOMAIN activities
    /\ activities' = Put(activities, session_id,
                         [pc |-> "start", test_type |-> test_type, error_count |-> 0,
                          data_count |-> 0, polls |-> 0, streak |-> 0,
                          stop_requested |-> FALSE, after_stop |-> 0, exit |-> "none"])
    /\ UNCHANGED <<sensor_data, final_data, call, runs, device, testVars, streamVars, is_running>>

\* start_data_collection, before the loop: self.is_running = True and the
\* counters are set to zero
CollectionBegin(session_id) ==
    /\ session_id \in DOMAIN activities
    /\ activities[session_id].pc = "start"
    /\ is_running' = TRUE
    /\ activities' = [activities EXCEPT ![session_id].pc = "check"]
    /\ UNCHANGED <<sensor_data, final_data, call, runs, device, testVars, streamVars>>

\* the loop condition: is_running, the duration not elapsed (it has after
\* MaxPolls polls or MaxRows rows), error_count < max_errors
CollectionCheck(session_id, elapsed) ==
    /\ session_id \in DOMAIN activities
    /\ activities[session_id].pc = "check"
    /\ (\/ activities[session_id].polls >= MaxPolls
        \/ Len(SessionRows(session_id)) >= MaxRows) => elapsed
    /\ LET a == activities[session_id]
           exit == IF ~is_running THEN "stopped"
                   ELSE IF elapsed THEN "elapsed"
                   ELSE IF a.error_count >= MaxErrors THEN "errors"
                   ELSE "none"
       IN  activities' = [activities EXCEPT
                            ![session_id].pc = IF exit = "none" THEN "poll" ELSE "finish",
                            ![session_id].exit = exit]
    /\ UNCHANGED <<sensor_data, final_data, call, runs, device, testVars, streamVars, is_running>>

\* the loop body: read_sensor_data, save_to_database, data_count += 1; an
\* exception that reaches the loop adds one to error_count, which nothing
\* sets back
CollectionPoll(session_id, outcome) ==
    /\ session_id \in DOMAIN activities
    /\ activities[session_id].pc = "poll"
    /\ LET a == activities[session_id]
           data == IF outcome = "read_failed"
                   THEN simulate_sensor_data(a.test_type, SteadySimulation)
                   ELSE read_sensor_data(Signal(device, 1, 1), a.test_type, SteadySimulation)
           inserted == outcome \in {"ok", "read_failed"}
       IN  /\ sensor_data' = IF inserted
                             THEN InsertRow(sensor_data, data, session_id, SessionUser(session_id))
                             ELSE sensor_data
           /\ activities' = [activities EXCEPT ![session_id] =
                 [pc |-> "check", test_type |-> a.test_type,
                  error_count |-> IF outcome = "raise" THEN a.error_count + 1 ELSE a.error_count,
                  data_count |-> IF outcome = "raise" THEN a.data_count ELSE a.data_count + 1,
                  polls |-> a.polls + 1,
                  streak |-> IF outcome \in FailedPolls THEN a.streak + 1 ELSE 0,
                  stop_requested |-> a.stop_requested,
                  after_stop |-> IF a.stop_requested /\ inserted THEN a.after_stop + 1
                                 ELSE a.after_stop,
                  exit |-> a.exit]]
    /\ UNCHANGED <<final_data, call, runs, device, testVars, streamVars, is_running>>

\* after the loop: self.is_running = False
CollectionFinish(session_id) ==
    /\ session_id \in DOMAIN activities
    /\ activities[session_id].pc = "finish"
    /\ is_running' = FALSE
    /\ activities' = [activities EXCEPT ![session_id].pc = "done"]
    /\ UNCHANGED <<sensor_data, final_data, call, runs, device, testVars, streamVars>>

\* stop_data_collection: self.is_running = False.  The request is meant for
\* every activity that has been started and has not finished.
StopDataCollection ==
    /\ \E s \in DOMAIN activities : activities[s].pc # "done" /\ ~activities[s].stop_requested
    /\ is_running' = FALSE
    /\ activities' = [s \in DOMAIN activities |->
                        IF activities[s].pc # "done"
                        THEN [activities[s] EXCEPT !.stop_requested = TRUE]
                        ELSE activities[s]]
    /\ UNCHANGED <<sensor_data, final_data, call, runs, device, testVars, streamVars>>

InitCollect ==
    /\ sensor_data = <<>>
    /\ final_data = <<>>
    /\ call = NoCall
    /\ runs = 0
    /\ device = "flat"
    /\ AppInit

\* one activity and the failures its polls can meet
NextCollect ==
    \/ StartCollection("s1", FORCE_AND_ANGLE)
    \/ CollectionBegin("s1")
    \/ \E elapsed \in BOOLEAN : CollectionCheck("s1", elapsed)
    \/ \E outcome \in Outcomes : CollectionPoll("s1", outcome)
    \/ CollectionFinish("s1")
    \/ StopDataCollection

SpecCollect == InitCollect /\ [][NextCollect]_vars

\* two activities on the one handler, every poll succeeding
NextShared ==
    \/ \E s \in AppSessions : StartCollection(s, FORCE_AND_ANGLE)
    \/ \E s \in AppSessions : CollectionBegin(s)
    \/ \E s \in AppSessions, elapsed \in BOOLEAN : CollectionCheck(s, elapsed)
    \/ \E s \in AppSessions : CollectionPoll(s, "ok")
    \/ \E s \in AppSessions : CollectionFinish(s)
    \/ StopDataCollection

SpecShared == InitCollect /\ [][NextShared]_vars

-----------------------------------------------------------------------------
(* generate_comparison_analysis *)

\* ticks of the clock in one calendar day
DayLength == 2

\* the two early returns: an empty frame, fewer than two session ids
InsufficientHistoryEmptyOnly(df) == Empty(df)
InsufficientHistory(df) ==
    Empty(df) \/ Len(Unique(Column(df.rows, "session_id"))) < 2

\* the dictionary values of one test type of one session.  The combined
\* branch is taken for the string 'force angle test' and reads
\* df[df['force_value'] > 0] of the whole history.
TypeValues(df, session_data, test_type) ==
    LET ydf == OfType(session_data, test_type)
        ydf_sorted ==
            sort_values_timestamp(Filter(df.rows, LAMBDA r : r.force_value[1] > 0))
    IN  CASE test_type = ANGLE ->
               Put(EmptyMap, "angle_value", ColMin(ydf, "angle_value"))
          [] test_type = FORCE ->
               Put(EmptyMap, "force_value", ColMax(ydf, "force_value"))
          [] test_type = "force angle test" ->
               Put(Put(EmptyMap, "angle_value", ydf_sorted[1].angle_value[1]),
                   "force_value", ColMax(ydf_sorted, "force_value"))
          [] OTHER -> EmptyMap

\* the stats dictionary of one session; date is Timestamp.date() of the
\* earliest sample, values is keyed by the session's test types
SessionStats(df, session_id) ==
    LET session_data == Filter(df.rows, LAMBDA r : r.session_id = session_id)
        ts == Range(Column(session_data, "timestamp"))
    IN  [session_id |-> session_id,
         date |-> SetMin(ts) \div DayLength,
         duration |-> Div(SetMax(ts) - SetMin(ts), 60),
         values |-> [t \in Range(Column(session_data, "test_type")) |->
                        TypeValues(df, session_data, t)]]

\* session_stats.sort(key = date): a stable sort
SortByDate(stats) ==
    LET before(j, i) ==
            stats[j].date < stats[i].date \/ (stats[j].date = stats[i].date /\ j < i)
        rank(i) == Cardinality({j \in DOMAIN stats : before(j, i)}) + 1
    IN  [k \in DOMAIN stats |-> stats[CHOOSE i \in DOMAIN stats : rank(i) = k]]

\* the dictionary improvement after the loop over the first session's test
\* types, taken in the order the dictionary holds them; the keys looked up
\* among the last session's test types are 'angle value', 'force test' and
\* 'force angle value'
RECURSIVE ImprovementFrom(_, _, _, _)
ImprovementFrom(types, first, last, improvement) ==
    IF types = <<>> THEN improvement
    ELSE LET test_type == Head(types)
             reported == DOMAIN last.values
             delta(c) == first.values[test_type][c] - last.values[test_type][c]
             after ==
               CASE test_type = ANGLE /\ "angle value" \in reported ->
                      Put(improvement, "angle", delta("angle_value"))
                 [] test_type = FORCE /\ FORCE \in reported ->
                      Put(improvement, "force", delta("force_value"))
                 [] test_type = "force angle test" /\ "force angle value" \in reported ->
                      Put(Put(improvement, "angle", delta("angle_value")),
                          "force", delta("force_value"))
                 [] OTHER -> improvement
         IN  ImprovementFrom(Tail(types), first, last, after)

\* an IndexError leaves the function when the combined branch finds no
\* sample with a positive force; every key of improvements is bound to the
\* one dictionary improvement
generate_comparison_analysis(user_id) ==
    LET df == load_user_historical_data(user_id)
        sessions == Unique(Column(df.rows, "session_id"))
        session_stats == SortByDate([i \in DOMAIN sessions |-> SessionStats(df, sessions[i])])
        first_session == session_stats[1]
        last_session == session_stats[Len(session_stats)]
        first_types ==
            Unique(Column(Filter(df.rows, LAMBDA r : r.session_id = first_session.session_id),
                          "test_type"))
        improvement == ImprovementFrom(first_types, first_session, last_session, EmptyMap)
    IN  IF InsufficientHistory(df) THEN [kind |-> "error"]
        ELSE IF "force angle test" \in Range(Column(df.rows, "test_type"))
                /\ \A i \in DOMAIN df.rows : df.rows[i].force_value[1] <= 0
        THEN [kind |-> "raise"]
        ELSE [kind |-> "dict",
              user_id |-> user_id,
              total_sessions |-> Len(sessions),
              session_statistics |-> session_stats,
              improvements |-> [t \in Range(first_types) |-> improvement]]

GenerateComparisonAnalysis(user_id) ==
    /\ call = NoCall
    /\ call' = [op |-> "generate_comparison_analysis", user_id |-> user_id,
                out |-> generate_comparison_analysis(user_id)]
    /\ UNCHANGED <<sensor_data, final_data, runs, device, appVars>>

\* the history specification: the user's two sessions, one after the other,
\* store their samples (the device does not answer and read_sensor_data
\* hands back simulated readings), and the comparison is requested
NextHistory ==
    \/ \E s \in Sessions, t \in TestTypes, sim \in Simulated :
          /\ s = "s0" => SessionRows("s1") = <<>>
          /\ SaveToDatabase(s, t, [force |-> NULL, yaw |-> NULL, angle |-> NULL], sim)
    \/ \E u \in Users : GenerateComparisonAnalysis(u)

SpecHistory == Init /\ [][NextHistory]_vars

-----------------------------------------------------------------------------
(* Properties *)

\* the rows the table holds for a session, and those of one test type
StoredRows(session_id) == Filter(sensor_data, LAMBDA r : r.session_id = session_id)
StoredOfType(session_id, t) == OfType(StoredRows(session_id), t)
StoredTypes(session_id) == {r.test_type : r \in Range(StoredRows(session_id))}
\* the readings a channel really holds (nulls are not readings)
Readout(rows, c) == DropNa(Column(rows, c))

Analysed == call.op = "comprehensive_analysis"
AnalysedNonEmpty == Analysed /\ StoredRows(call.session_id) # <<>>
Returned == Analysed /\ call.out.kind = "result"

\* C1: comprehensive_analysis on a session with zero samples returns the bare
\* error marker (no statistical, trend, clustering or score section), and
\* final_data gets no record of that session.
C1_EmptySessionOnlyErrorMarker ==
    (Analysed /\ StoredRows(call.session_id) = <<>>)
        => /\ call.out = [kind |-> "error"]
           /\ \A i \in DOMAIN final_data : final_data[i].session_id # call.session_id

\* an empty session analysed while the table holds rows of another session
C1_Witness ==
    /\ Analysed
    /\ StoredRows(call.session_id) = <<>>
    /\ sensor_data # <<>>

\* C2: for a non-empty session the result names exactly the test types of
\* its samples: data_summary.test_types, the keys of statistical_analysis,
\* of trend_analysis and of performance_score.score are that set.
C2_ExactlyTheTypesPresent ==
    AnalysedNonEmpty =>
        LET types == StoredTypes(call.session_id)
            out == call.out
        IN  /\ out.kind = "result"
            /\ Range(out.data_summary.test_types) = types
            /\ out.statistical_analysis.kind = "dict"
            /\ DOMAIN out.statistical_analysis.val = types
            /\ out.trend_analysis.kind = "dict"
            /\ DOMAIN out.trend_analysis.val = types
            /\ out.performance_score.kind = "dict"
            /\ DOMAIN out.performance_score.score = types

\* the trend_analysis output of the last request, if it made one
HasTrendOutput == call.op = "trend_analysis" \/ Returned
TrendOutput == IF call.op = "trend_analysis" THEN call.out ELSE call.out.trend_analysis
TrendHasOverallBlock(out, t) ==
    /\ out.kind = "dict"
    /\ t \in DOMAIN out.val
    /\ "overall_trends" \in DOMAIN out.val[t]

\* C3: the trend output of a test type holds overall_trends exactly when the
\* type has more than 10 rows (10 rows: absent, 11 rows: present).
C3_OverallBlockIffMoreThanTen ==
    HasTrendOutput =>
        \A t \in Range(TypesOf(call.df)) :
            TrendHasOverallBlock(TrendOutput, t)
                <=> Len(OfType(call.df.rows, t)) > TrendMinRows

Increasing(s) == \A i \in 1..(Len(s) - 1) : s[i] < s[i + 1]

\* C4: a session of more than 10 force samples with increasing force gets,
\* through comprehensive_analysis, one session_trends entry for the force
\* type and a positive overall_trends.force_improvement.change.
C4_RisingForceSessionTrend ==
    (/\ Analysed
     /\ StoredTypes(call.session_id) = {FORCE}
     /\ Len(StoredRows(call.session_id)) > TrendMinRows
     /\ \A r \in Range(StoredRows(call.session_id)) : r.force_value # NULL
     /\ Increasing(Readout(StoredRows(call.session_id), "force_value")))
        => /\ call.out.kind = "result"
           /\ TrendHasOverallBlock(call.out.trend_analysis, FORCE)
           /\ Len(call.out.trend_analysis.val[FORCE]["session_trends"]) = 1
           /\ RatPos(call.out.trend_analysis.val[FORCE]["overall_trends"]["force_improvement"].change)
\* the performance_clustering output of the last request, if it made one
HasClusterOutput == call.op = "performance_clustering" \/ Returned
ClusterOutput ==
    IF call.op = "performance_clustering" THEN call.out ELSE call.out.clustering_analysis
\* the output marks the type as short of data: as a whole, or under the type
MarkedInsufficient(out, t) ==
    \/ out.kind = "marker"
    \/ out.kind = "dict" /\ t \in DOMAIN out.val /\ out.val[t].kind = "marker"
Clustered(out, t) == out.kind = "dict" /\ t \in DOMAIN out.val /\ out.val[t].kind = "entry"

\* C5: a test type gets the insufficient-data marker exactly when it has 15
\* or fewer samples of its own; with 16 or more it is clustered.  (Stated for
\* the calls that return a clustering result or a marker.)
C5_MarkerIffFewerThanSixteenOfType ==
    (HasClusterOutput /\ ClusterOutput.kind \notin {"none", "raise"}) =>
        \A t \in Range(TypesOf(call.df)) :
            IF Len(OfType(call.df.rows, t)) <= ClusterMinRows
            THEN MarkedInsufficient(ClusterOutput, t)
            ELSE Clustered(ClusterOutput, t)

\* the feature set that belongs to a test type
FeaturesOf(t) ==
    CASE t = FORCE -> {"force_value"}
      [] t = ANGLE -> {"angle_value"}
      [] t = FORCE_AND_ANGLE -> {"force_value", "angle_value"}
\* the samples of a type restricted to its features
OwnData(df, t) ==
    LET own == OfType(df.rows, t)
    IN  [i \in DOMAIN own |-> [f \in FeaturesOf(t) |-> own[i][f][1]]]

\* C6: performance_clustering never raises, and what it clusters for a test
\* type is the samples of that type on the features of that type.
C6_ClustersOwnSamplesAndFeatures ==
    call.op = "performance_clustering" =>
        /\ call.out.kind # "raise"
        /\ \A t \in Range(TypesOf(call.df)) :
              Clustered(call.out, t) =>
                  /\ call.out.val[t].features = FeaturesOf(t)
                  /\ call.out.val[t].clustered = OwnData(call.df, t)

\* the candidates of a type with n samples and their scores under a profile
Candidates(n) == 2..Min2(MaxClusterCount, n - 1)
Scored(data, sil) == IF SeveralLabels(data) THEN Candidates(Len(data)) ELSE {}
BeatsZero(data, sil) == {k \in Scored(data, sil) : sil[k - 1] > 0}

\* C7: for a type with n >= 16 samples the reported n_clusters lies in
\* 1..min(5, n-1) and is a best-scoring k of the candidates 2..min(5, n-1),
\* with that k's score; it is 2 with score 0 when no candidate scores above 0.
C7_BestScoringClusterCount ==
    call.op = "performance_clustering" =>
        \A t \in Range(TypesOf(call.df)) :
            (Len(OfType(call.df.rows, t)) > ClusterMinRows /\ Clustered(call.out, t)) =>
                LET data == OwnData(call.df, t)
                    n == Len(data)
                    entry == call.out.val[t]
                    winners == BeatsZero(data, call.sil)
                IN  /\ entry.n_clusters \in 1..Min2(MaxClusterCount, n - 1)
                    /\ IF winners = {}
                       THEN entry.n_clusters = 2 /\ entry.silhoutte_score = 0
                       ELSE /\ entry.n_clusters \in winners
                            /\ entry.silhoutte_score = call.sil[entry.n_clusters - 1]
                            /\ \A k \in winners : call.sil[k - 1] <= entry.silhoutte_score
\* C8: in the summary comprehensive_analysis produces, a channel of a test
\* type has a block exactly when the stored samples of the type hold a
\* non-null value of it; count is the number of those values and
\* min <= mean <= max.
C8_StatisticsOverNonNullValues ==
    Returned =>
        \A t \in StoredTypes(call.session_id) : \A ch \in {"force", "angle"} :
            LET values == Readout(StoredOfType(call.session_id, t), ChannelColumn(ch))
                summary == call.out.statistical_analysis.val[t]
            IN  /\ ch \in DOMAIN summary <=> values # <<>>
                /\ ch \in DOMAIN summary =>
                      /\ summary[ch].count = Len(values)
                      /\ RatLe(Rat(summary[ch].min, 1), summary[ch].mean)
                      /\ RatLe(summary[ch].mean, Rat(summary[ch].max, 1))

\* an analysed session whose samples are all force samples
ForceOnlySession ==
    /\ Analysed
    /\ StoredTypes(call.session_id) = {FORCE}
StoredForces == Range(Readout(StoredRows(call.session_id), "force_value"))

\* C9: for a session of force samples only, the score of the force type is
\* (300 - max(force)) / 300, and the summary of the force channel reports the
\* min, the max and the count of the force values.
C9_ForceScoreAndSummary ==
    ForceOnlySession =>
        LET performance_score == generate_performance_score(call.df)
            statistical_analysis == basic_statistical_analysis(call.df)
        IN  /\ performance_score.kind = "dict"
            /\ RatEq(performance_score.score[FORCE], Div(300 - SetMax(StoredForces), 300))
            /\ statistical_analysis.val[FORCE]["force"].min = SetMin(StoredForces)
            /\ statistical_analysis.val[FORCE]["force"].max = SetMax(StoredForces)
            /\ statistical_analysis.val[FORCE]["force"].count
                  = Len(Readout(StoredRows(call.session_id), "force_value"))

\* the 20-sample scenario: force rising from 20 N to 60 N, score 0.8
C9_Witness ==
    /\ ForceOnlySession
    /\ Len(StoredRows(call.session_id)) = 20
    /\ SetMin(StoredForces) = 20
    /\ SetMax(StoredForces) = 60
    /\ generate_performance_score(call.df).score[FORCE] = Rat(4, 5)
    /\ basic_statistical_analysis(call.df).val[FORCE]["force"].count = 20

\* the frame of a session with the samples of every other test type left out
OnlyType(df, t) == [columns |-> df.columns, rows |-> OfType(df.rows, t)]

\* C10: the score of a test type depends on the samples of that type only:
\* it is the score the same samples get in a session that holds nothing else.
C10_ScoreDependsOnOwnTypeOnly ==
    Returned =>
        \A t \in Range(TypesOf(call.df)) :
            LET alone == generate_performance_score(OnlyType(call.df, t))
            IN  alone.kind = "dict" =>
                    call.out.performance_score.score[t] = alone.score[t]

\* an analysed session whose samples are all force and angle samples
CombinedOnlySession ==
    /\ Analysed
    /\ StoredTypes(call.session_id) = {FORCE_AND_ANGLE}

\* C11: for every non-empty set of force and angle samples the combined score
\* is a defined number: nothing is raised, and the score is neither nan nor
\* infinite (single sample, or no sample above the noise floor, included).
C11_CombinedScoreDefined ==
    CombinedOnlySession =>
        /\ call.out.kind = "result"
        /\ call.out.performance_score.kind = "dict"
        /\ IsFinite(call.out.performance_score.score[FORCE_AND_ANGLE])

\* the stored force and angle samples of the analysed session that lie above
\* the noise floor, earliest first
OwnAboveNoise ==
    Filter(sort_values_timestamp(StoredOfType(call.session_id, FORCE_AND_ANGLE)),
           LAMBDA r : r.force_value # NULL /\ r.force_value[1] > 10)

\* C12: the baseline of the combined score is the angle of the earliest
\* force and angle sample with force > 10 (stated for sessions in which that
\* sample carries an angle).
C12_BaselineIsEarliestAboveNoise ==
    (Returned /\ OwnAboveNoise # <<>> /\ OwnAboveNoise[1].angle_value # NULL) =>
        Baseline(call.df) = OwnAboveNoise[1].angle_value

\* the values a channel holds in the rows of a test type of the analysed
\* frame, earliest first
TrendValues(t, ch) ==
    LET rows == sort_values_timestamp(OfType(call.df.rows, t))
    IN  [i \in DOMAIN rows |-> rows[i][ChannelColumn(ch)][1]]
ExpectedChange(v) ==
    RatSub(Mean(SubSeq(v, Len(v) \div 2 + 1, Len(v))), Mean(SubSeq(v, 1, Len(v) \div 2)))
ExpectedPercentage(v) ==
    IF SumSeq(SubSeq(v, 1, Len(v) \div 2)) = 0 THEN Rat(0, 1)
    ELSE RatScale(RatDiv(ExpectedChange(v), Mean(SubSeq(v, 1, Len(v) \div 2))), 100, 1)

\* C13: where trend_analysis reports overall_trends for a test type, it holds
\* one improvement per channel of the type, each computed from its own
\* channel: change = mean(second half) - mean(first half) of the rows sorted
\* by timestamp and split at floor(n/2); percentage = change / mean(first
\* half) * 100, and 0 when the first-half mean is 0.
C13_OverallTrendValues ==
    HasTrendOutput =>
        \A t \in Range(TypesOf(call.df)) :
            TrendHasOverallBlock(TrendOutput, t) =>
                LET block == TrendOutput.val[t]["overall_trends"]
                IN  /\ DOMAIN block = {ch \o "_improvement" : ch \in TrendChannels(t)}
                    /\ \A ch \in TrendChannels(t) :
                          /\ RatEq(block[ch \o "_improvement"].change,
                                   ExpectedChange(TrendValues(t, ch)))
                          /\ RatEq(block[ch \o "_improvement"].percentage,
                                   ExpectedPercentage(TrendValues(t, ch)))

\* a combined type with an odd number of rows whose first half is at rest:
\* both improvements are reported, the force one with percentage 0
C13_Witness ==
    /\ call.op = "trend_analysis"
    /\ TrendHasOverallBlock(call.out, FORCE_AND_ANGLE)
    /\ Len(OfType(call.df.rows, FORCE_AND_ANGLE)) % 2 = 1
    /\ SumSeq(SubSeq(TrendValues(FORCE_AND_ANGLE, "force"), 1,
                     Len(TrendValues(FORCE_AND_ANGLE, "force")) \div 2)) = 0
    /\ RatPos(call.out.val[FORCE_AND_ANGLE]["overall_trends"]["force_improvement"].change)
    /\ RatPos(call.out.val[FORCE_AND_ANGLE]["overall_trends"]["angle_improvement"].change)
    /\ call.out.val[FORCE_AND_ANGLE]["overall_trends"]["force_improvement"].percentage = Rat(0, 1)

\* the grade of a mean score
GradeOfMean(mean) ==
    IF IsNaN(mean) THEN "D"
    ELSE IF ~IsFinite(mean) THEN "A"
    ELSE IF mean.num >= 90 * mean.den THEN "A"
    ELSE IF mean.num >= 80 * mean.den THEN "B"
    ELSE IF mean.num >= 70 * mean.den THEN "C"
    ELSE "D"
\* the mean of the scores of a dictionary (nan or infinite when one of them is)
MeanScore(scores) ==
    LET types == DOMAIN scores
        undefined == {t \in types : ~IsFinite(scores[t])}
        RECURSIVE Total(_)
        Total(S) == IF S = {} THEN Rat(0, 1)
                    ELSE LET t == CHOOSE x \in S : TRUE
                         IN  RatAdd(scores[t], Total(S \ {t}))
    IN  IF \E t \in undefined : IsNaN(scores[t]) THEN Rat(0, 0)
        ELSE IF undefined # {} THEN Rat(1, 0)
        ELSE RatScale(Total(types), 1, Cardinality(types))

C15_AnalysedSeriesIsFinal ==
    Analysed => Len(call.df.rows) = Len(SessionRows(call.session_id))

\* C20: a session row is never deleted, and once its status is 'completed'
\* its end_time, duration and status are not written again.
C20_SessionMutatedOnce ==
    [][/\ DOMAIN training_sessions \subseteq DOMAIN training_sessions'
       /\ \A s \in DOMAIN training_sessions :
             training_sessions[s].status = "completed"
                 => training_sessions'[s] = training_sessions[s]]_vars

\* the collect_wifi_sensor_data threads of a session that have not left
\* their loop
LiveStreams(session_id) ==
    {i \in DOMAIN streams : streams[i].session_id = session_id /\ streams[i].pc # "done"}

\* C16: at every moment at most one collection thread is running for a
\* session_id, whatever start and stop requests were served.
C16_OneCollectionPerSession ==
    \A s \in StreamSessions : Cardinality(LiveStreams(s)) <= 1

\* the activity left its loop with the error limit reached (the branch that
\* reports the stop due to excessive errors)
FatalStop(a) == a.pc \in {"finish", "done"} /\ a.error_count >= 10

\* C17: a collection activity is stopped by errors exactly after a run of 10
\* consecutive failed polls (failed read or failed write): it does not stop
\* fatally with a shorter run, and it does not begin another poll after such
\* a run.
C17_FatalStopAfterTenConsecutiveErrors ==
    \A s \in DOMAIN activities :
        /\ FatalStop(activities[s]) => activities[s].streak >= 10
        /\ activities[s].pc = "poll" => activities[s].streak < 10

\* C18: after the stop signal an activity appends at most the sample of the
\* poll in progress, at whatever point of its life the signal was given.
C18_AtMostOneSampleAfterStop ==
    \A s \in DOMAIN activities : activities[s].after_stop <= 1

\* C19: an activity leaves its loop because the run flag is down only when
\* its own stop was requested: the activity of another session does not end
\* it.
C19_StoppedOnlyByOwnStop ==
    \A s \in DOMAIN activities :
        activities[s].exit = "stopped" => activities[s].stop_requested


\* the comparison of a user's history has been requested, and it returned
\* statistics
Compared == call.op = "generate_comparison_analysis"
ComparedSessions == Compared /\ call.out.kind = "dict"
\* the sessions of the user that have samples in the table
HistorySessions(user_id) ==
    {r.session_id : r \in {x \in Range(sensor_data) : SessionUser(x.session_id) = user_id}}
FirstSession == call.out.session_statistics[1].session_id
LastSession == call.out.session_statistics[Len(call.out.session_statistics)].session_id
CommonTypes == StoredTypes(FirstSession) \cap StoredTypes(LastSession)

\* C21: generate_comparison_analysis returns the insufficient-history marker,
\* without statistics, exactly when the user's history holds fewer than two
\* distinct sessions (one session, or no sample at all); with two or more
\* sessions it returns the statistics.
C21_MarkerIffFewerThanTwoSessions ==
    Compared =>
        IF Cardinality(HistorySessions(call.user_id)) < 2
        THEN call.out = [kind |-> "error"]
        ELSE /\ call.out.kind = "dict"
             /\ call.out.total_sessions = Cardinality(HistorySessions(call.user_id))
             /\ Len(call.out.session_statistics) = call.out.total_sessions

C21_Witness ==
    /\ Compared
    /\ Cardinality(HistorySessions(call.user_id)) = 1
    /\ call.out = [kind |-> "error"]

\* C22: with two or more sessions the keys of improvements are test types
\* that both the first and the last session report.
C22_ImprovementKeysAreCommonTypes ==
    ComparedSessions => DOMAIN call.out.improvements \subseteq CommonTypes

\* the summary of a session's samples of one type: minimum angle, maximum
\* force, and for the combined type the angle of the earliest sample with a
\* positive force together with the maximum force
PulledOfType(session_id, t) ==
    Filter(StoredOfType(session_id, t),
           LAMBDA r : r.force_value # NULL /\ r.force_value[1] > 0)
ExpectedSummary(session_id, t) ==
    CASE t = ANGLE ->
           Put(EmptyMap, "angle_value",
               SetMin(Range(Readout(StoredOfType(session_id, t), "angle_value"))))
      [] t = FORCE ->
           Put(EmptyMap, "force_value",
               SetMax(Range(Readout(StoredOfType(session_id, t), "force_value"))))
      [] t = FORCE_AND_ANGLE ->
           Put(Put(EmptyMap, "angle_value", PulledOfType(session_id, t)[1].angle_value[1]),
               "force_value",
               SetMax(Range(Readout(StoredOfType(session_id, t), "force_value"))))
ExpectedImprovement(t) ==
    LET first == ExpectedSummary(FirstSession, t)
        last == ExpectedSummary(LastSession, t)
        angle == Put(EmptyMap, "angle", first["angle_value"] - last["angle_value"])
        force == Put(EmptyMap, "force", first["force_value"] - last["force_value"])
    IN  CASE t = ANGLE -> angle
          [] t = FORCE -> force
          [] t = FORCE_AND_ANGLE -> Put(angle, "force", force["force"])

\* C23: for every test type both the first and the last session report, the
\* improvements entry of the type holds the first session's value minus the
\* last session's value of that type, and nothing of another type.
C23_ImprovementIsFirstMinusLast ==
    ComparedSessions =>
        \A t \in CommonTypes :
            /\ t \in DOMAIN call.out.improvements
            /\ call.out.improvements[t] = ExpectedImprovement(t)

\* C24: every session's summary of a test type it holds is computed from the
\* session's own samples of that type, and none is left empty.
C24_SummaryOfOwnSamples ==
    ComparedSessions =>
        \A i \in DOMAIN call.out.session_statistics :
            LET st == call.out.session_statistics[i]
            IN  \A t \in StoredTypes(st.session_id) :
                    /\ t \in DOMAIN st.values
                    /\ st.values[t] = ExpectedSummary(st.session_id, t)

\* C25: when the persisting of the merged result fails (opening the store,
\* serialising the payload or the insert), comprehensive_analysis still
\* returns the result it had computed, unchanged.
C25_PersistenceFailureKeepsResult ==
    Analysed /\ call.saved \in {"failed", "raise"}
        => call.out = ComprehensiveResult(call.session_id, call.df, call.sil)

\* C26: when the recommendation generator fails, stop_test still answers
\* with the analysis results (200) and the session is removed from
\* current_sessions.
C26_AdvisorFailureStillCompletes ==
    \A i \in DOMAIN requests :
        (requests[i].pc = "done" /\ requests[i].advice = "api_error")
            => /\ requests[i].status = 200
               /\ requests[i].session_id \notin DOMAIN current_sessions

\* C27: for a session with at least one sample comprehensive_analysis returns
\* a structured result: every section is present and holds, for every test
\* type of the session, either its values or a marker; the call does not
\* end in a bare failure.
C27_StructuredResultWithMarkers ==
    AnalysedNonEmpty =>
        /\ call.out.kind = "result"
        /\ call.out.statistical_analysis.kind = "dict"
        /\ call.out.trend_analysis.kind = "dict"
        /\ call.out.clustering_analysis.kind = "dict"
        /\ call.out.performance_score.kind = "dict"
        /\ \A t \in StoredTypes(call.session_id) :
              /\ t \in DOMAIN call.out.statistical_analysis.val
              /\ t \in DOMAIN call.out.trend_analysis.val
              /\ t \in DOMAIN call.out.clustering_analysis.val
              /\ t \in DOMAIN call.out.performance_score.score

\* one of the analyses has been applied to a frame without samples
AppliedToEmpty ==
    /\ call.op \in {"trend_analysis", "performance_clustering"}
    /\ Empty(call.df)

\* C28: given an empty sample set, basic_statistical_analysis, trend_analysis,
\* performance_clustering and generate_performance_score each return an
\* explicit error or insufficient-data marker: none raises, none returns
\* anything else.
C28_EmptySampleSetGivesMarker ==
    AppliedToEmpty =>
        /\ call.out.kind \in {"error", "marker"}
        /\ basic_statistical_analysis(call.df).kind \in {"error", "marker"}
        /\ trend_analysis(call.df).kind \in {"error", "marker"}
        /\ generate_performance_score(call.df).kind \in {"error", "marker"}

\* C29: the data_count of a collection activity equals the number of samples
\* the activity has stored for its session, also after a failed write.
C29_CountAgreesWithStore ==
    \A s \in DOMAIN activities : activities[s].data_count = Len(SessionRows(s))

\* C30: whatever the interleaving with stop_test, no lookup of
\* current_sessions[session_id] by the collect_data_background thread fails:
\* the thread is never ended by the KeyError of an entry removed between
\* the membership test and the subscript.
C30_CollectorNeverFailsOnLookup ==
    \A s \in DOMAIN collectors : collectors[s].pc # "failed"
====
